---- MODULE Spec2Model ----
(***************************************************************************)
(* sensu-sh: the exec-handler hook (Prog.exec), the query and event        *)
(* built-ins (Prog.filterJSON, Prog.filterEvent), the query filter         *)
(* (jsonFilter.run) and the result encoders of src/main.go.                *)
(*                                                                         *)
(* Text (a Go string holding YAML/JSON) is a sequence of lines, the empty  *)
(* sequence being the empty string; values are records [t, s]; every       *)
(* write to a command's standard output is one chunk of work.out.          *)
(***************************************************************************)
EXTENDS Integers, Sequences, FiniteSets, TLC

\* ------------------------------------------------------------- bounds
MaxArgs == 3    \* longest argument vector of any shape, after the command name
MaxLines == 3   \* longest input text, in lines
MaxList == 2    \* most elements of an indexed variable
MaxWrites == 2  \* a failing standard output accepts at most this many writes

\* ------------------------------------------------------------- values
V(tag, items) == [t |-> tag, s |-> items]
Null == V("null", <<>>)
Num(l) == V("num", <<l>>)
ListVal == V("list", <<"1", "2">>)
ErrVal == V("error", <<>>)

\* The lines input text is built from: a document separator, a scalar, a
\* flow sequence and an unclosed flow mapping.
Lines == {"---", "1", "[1,2]", "{"}

SeqsUpTo(S, n) == UNION {[1..k -> S] : k \in 0..n}

Texts == SeqsUpTo(Lines, MaxLines)

\* ------------------------------------------------- yaml.Decoder.Decode
\* Index of the first "---" line at or after i, or Len(lines)+1.
RECURSIVE NextSep(_, _)
NextSep(lines, i) ==
    IF i > Len(lines) THEN i
    ELSE IF lines[i] = "---" THEN i
    ELSE NextSep(lines, i + 1)

\* The node of a document whose content is lines[a..b-1] (no "---" in it):
\* the value, whether it decodes, and the line after the node.
Node(lines, a, b) ==
    IF a >= b THEN [ok |-> TRUE, v |-> Null, next |-> b]
    ELSE IF lines[a] = "{" THEN [ok |-> FALSE, v |-> Null, next |-> b]
    ELSE IF lines[a] = "[1,2]" THEN [ok |-> TRUE, v |-> ListVal, next |-> a + 1]
    ELSE IF b = a + 1 THEN [ok |-> TRUE, v |-> Num(lines[a]), next |-> b]
    ELSE [ok |-> TRUE, v |-> V("fold", SubSeq(lines, a, b - 1)), next |-> b]

\* One dec.Decode(&input) of a decoder at line pos; first: no document has
\* been read yet, so one may start without "---".
Decode(lines, pos, first) ==
    IF pos > Len(lines) THEN [st |-> "eof", v |-> Null, pos |-> pos]
    ELSE IF lines[pos] = "---"
    THEN LET n == Node(lines, pos + 1, NextSep(lines, pos + 1))
         IN [st |-> IF n.ok THEN "ok" ELSE "err", v |-> n.v, pos |-> n.next]
    ELSE IF first
    THEN LET n == Node(lines, pos, NextSep(lines, pos))
         IN [st |-> IF n.ok THEN "ok" ELSE "err", v |-> n.v, pos |-> n.next]
    ELSE [st |-> "err", v |-> Null, pos |-> pos]

\* ------------------------------------------------------------- gojq
Queries == {".", ".[]", ".,error,."}

\* gojq.Parse: the strings that are no query.
ParseOK(queryStr) == queryStr \notin {"][", "-", "--"}

RECURSIVE Nums(_, _)
Nums(s, i) == IF i > Len(s) THEN <<>> ELSE <<Num(s[i])>> \o Nums(s, i + 1)

\* query.Run(input), to the end of the iterator: "." is the input, ".[]"
\* the elements of a sequence or mapping and an error on anything else,
\* ".,error,." the input, an error and the input; a name that is no
\* function (a variable name used as a query) is an error.
Run(queryStr, input) ==
    CASE queryStr = "." -> <<input>>
      [] queryStr = ".[]" ->
            IF input.t \in {"list", "map"} THEN Nums(input.s, 1) ELSE <<ErrVal>>
      [] queryStr = ".,error,." -> <<input, ErrVal, input>>
      [] OTHER -> <<ErrVal>>

\* ------------------------------------------------- handler results
Nil == [kind |-> "nil", code |-> 0]
NewExitStatus(n) == [kind |-> "exit", code |-> n]
GoError == [kind |-> "error", code |-> 0]

\* What one invocation has done so far: its writes to standard output, its
\* log lines, and the calls it made to gojq.Parse, query.Run (with their
\* inputs), dec.Decode and ioutil.ReadAll.
NoWork == [out |-> <<>>, log |-> <<>>, parses |-> 0, runs |-> <<>>,
           decodes |-> 0, reads |-> 0]

Logged(w, msg) == [w EXCEPT !.log = Append(@, msg)]

\* ------------------------------------------------------------- writers
\* A handler context's Stdout is the number of writes it accepts before
\* every later one fails; Unlimited is a stream that never fails.
Unlimited == -1

Accepts(hc, out) == hc.Stdout = Unlimited \/ Len(out) < hc.Stdout

Chunk(kind, indent, sep, val) == [k |-> kind, pretty |-> indent, lead |-> sep, v |-> val]
Newline == Chunk("nl", FALSE, FALSE, Null)

\* ------------------------------------------------------------ encoders
\* jsonFilter.encoder: JSON before YAML before plain; a new encoder has
\* written nothing.
encoder(j) ==
    IF j.json THEN [kind |-> "json", pretty |-> j.pretty, written |-> FALSE]
    ELSE IF j.yaml THEN [kind |-> "yaml", pretty |-> FALSE, written |-> FALSE]
    ELSE [kind |-> "plain", pretty |-> FALSE, written |-> FALSE]

\* plainEncoder.Encode: a newline before every value but the encoder's
\* first, then the value's text; either write may fail.
plainEncode(enc, val, hc, out) ==
    IF enc.written /\ ~Accepts(hc, out)
    THEN [ok |-> FALSE, enc |-> enc, out |-> out]
    ELSE LET out1 == IF enc.written THEN Append(out, Newline) ELSE out
             enc1 == [enc EXCEPT !.written = TRUE]
         IN IF ~Accepts(hc, out1)
            THEN [ok |-> FALSE, enc |-> enc1, out |-> out1]
            ELSE [ok |-> TRUE, enc |-> enc1,
                  out |-> Append(out1, Chunk("plain", FALSE, FALSE, val))]

\* enc.Encode(val) of the encoder jsonFilter.encoder returned. The JSON
\* encoder writes the value and its newline in one write; the YAML encoder
\* writes one document, led by "---" from its second document on.
Encode(enc, val, hc, out) ==
    IF enc.kind = "plain" THEN plainEncode(enc, val, hc, out)
    ELSE IF ~Accepts(hc, out) THEN [ok |-> FALSE, enc |-> enc, out |-> out]
    ELSE [ok |-> TRUE, enc |-> [enc EXCEPT !.written = TRUE],
          out |-> Append(out, Chunk(enc.kind, enc.pretty,
                                    enc.kind = "yaml" /\ enc.written, val))]

\* -------------------------------------------------------- jsonFilter.run
\* iterate with the return on an error value lost: the loop goes on to the
\* next result.
RECURSIVE iterateSkipsError(_, _, _, _, _)
iterateSkipsError(enc, iter, i, hc, w) ==
    IF i > Len(iter) THEN [ret |-> Nil, w |-> w]
    ELSE IF iter[i].t = "error"
    THEN iterateSkipsError(enc, iter, i + 1, hc, Logged(w, "query error"))
    ELSE LET e == Encode(enc, iter[i], hc, w.out)
         IN IF ~e.ok
            THEN [ret |-> NewExitStatus(1),
                  w |-> Logged([w EXCEPT !.out = e.out], "encoding error")]
            ELSE iterateSkipsError(e.enc, iter, i + 1, hc, [w EXCEPT !.out = e.out])

\* The loop over iter.Next(): an error value ends the invocation with
\* status 1, and so does a failed Encode.
\* iterate with a failed Encode returned as it is (return err), not as an
\* exit status.
RECURSIVE iterateReturnsError(_, _, _, _, _)
iterateReturnsError(enc, iter, i, hc, w) ==
    IF i > Len(iter) THEN [ret |-> Nil, w |-> w]
    ELSE IF iter[i].t = "error"
    THEN [ret |-> NewExitStatus(1), w |-> Logged(w, "query error")]
    ELSE LET e == Encode(enc, iter[i], hc, w.out)
         IN IF ~e.ok
            THEN [ret |-> GoError,
                  w |-> Logged([w EXCEPT !.out = e.out], "encoding error")]
            ELSE iterateReturnsError(e.enc, iter, i + 1, hc, [w EXCEPT !.out = e.out])

RECURSIVE iterate(_, _, _, _, _)
iterate(enc, iter, i, hc, w) ==
    IF i > Len(iter) THEN [ret |-> Nil, w |-> w]
    ELSE IF iter[i].t = "error"
    THEN [ret |-> NewExitStatus(1), w |-> Logged(w, "query error")]
    ELSE LET e == Encode(enc, iter[i], hc, w.out)
         IN IF ~e.ok
            THEN [ret |-> NewExitStatus(1),
                  w |-> Logged([w EXCEPT !.out = e.out], "encoding error")]
            ELSE iterate(e.enc, iter, i + 1, hc, [w EXCEPT !.out = e.out])

\* jsonFilter.run: parse the query, make an encoder, run the query on the
\* input and encode its results.
run(j, queryStr, input, hc, w) ==
    LET w1 == [w EXCEPT !.parses = @ + 1]
    IN IF ~ParseOK(queryStr)
       THEN [ret |-> NewExitStatus(1), w |-> Logged(w1, "unable to parse query")]
       ELSE iterate(encoder(j), Run(queryStr, input), 1, hc,
                    [w1 EXCEPT !.runs = Append(@, input)])

\* ------------------------------------------------------ flag.FlagSet
\* The arguments flag.Parse takes for flags: those of two or more
\* characters that start with "-".
DashTokens == {"-R", "-raw-input", "-j", "-json", "-Y", "-yaml", "-p", "-pretty",
               "-h", "-help", "-x", "--"}

\* jsonFilter.bind: the flags of both commands and the field each sets.
bind == [f \in {"-j", "-json", "-Y", "-yaml", "-p", "-pretty"} |->
            IF f \in {"-j", "-json"} THEN "json"
            ELSE IF f \in {"-Y", "-yaml"} THEN "yaml" ELSE "pretty"]

\* The flag set of query: bind's flags and -R, -raw-input.
queryFlags == [f \in DOMAIN bind \cup {"-R", "-raw-input"} |->
                  IF f \in DOMAIN bind THEN bind[f] ELSE "rawInput"]

\* f.Parse(args[1:]): flags are taken up to the first argument that is no
\* flag or to "--"; -h and -help, unless defined, are flag.ErrHelp and any
\* other undefined flag is an error. set: the fields set to true.
RECURSIVE Parse(_, _, _, _)
Parse(formal, args, i, set) ==
    IF i > Len(args) THEN [err |-> "nil", set |-> set, rest |-> <<>>]
    ELSE IF args[i] \notin DashTokens
    THEN [err |-> "nil", set |-> set, rest |-> SubSeq(args, i, Len(args))]
    ELSE IF args[i] = "--"
    THEN [err |-> "nil", set |-> set, rest |-> SubSeq(args, i + 1, Len(args))]
    ELSE IF args[i] \in DOMAIN formal
    THEN Parse(formal, args, i + 1, set \cup {formal[args[i]]})
    ELSE IF args[i] \in {"-h", "-help"}
    THEN [err |-> "help", set |-> set, rest |-> <<>>]
    ELSE [err |-> "undefined", set |-> set, rest |-> <<>>]

jsonFilter(set) ==
    [json |-> "json" \in set, yaml |-> "yaml" \in set, pretty |-> "pretty" \in set]

\* ------------------------------------------------------- environment
Unset == [Kind |-> "Unset", Str |-> <<>>, List |-> <<>>]
String(str) == [Kind |-> "String", Str |-> str, List |-> <<>>]
Indexed(list) == [Kind |-> "Indexed", Str |-> <<>>, List |-> list]

\* h.Env.Get(name)
Get(Env, name) == IF name \in DOMAIN Env THEN Env[name] ELSE Unset

\* strings.Join(list, "\n"): the lines of the elements, in order (every
\* element is a text of one line or more).
RECURSIVE Join(_, _)
Join(list, i) == IF i > Len(list) THEN <<>> ELSE list[i] \o Join(list, i + 1)

\* ------------------------------------------------------ Prog.filterJSON
\* The loop over dec.Decode: every document of the stream is queried in
\* turn; the end of the stream is success, a decoding error status 1, and
\* a failed run is returned as it is.
RECURSIVE decodeLoop(_, _, _, _, _, _, _)
decodeLoop(j, queryStr, r, pos, first, hc, w) ==
    LET d == IF r.broken THEN [st |-> "err", v |-> Null, pos |-> pos]
             ELSE Decode(r.lines, pos, first)
        w1 == [w EXCEPT !.decodes = @ + 1]
    IN IF d.st = "eof" THEN [ret |-> Nil, w |-> w1]
       ELSE IF d.st = "err"
       THEN [ret |-> NewExitStatus(1), w |-> Logged(w1, "error decoding input")]
       ELSE LET x == run(j, queryStr, d.v, hc, w1)
            IN IF x.ret # Nil THEN x
               ELSE decodeLoop(j, queryStr, r, d.pos, FALSE, hc, x.w)

\* reader with standard input kept for a variable that is no string and
\* no indexed variable.
readerKeepsStdin(source, hc) ==
    IF source = "-" THEN hc.Stdin
    ELSE LET v == Get(hc.Env, source)
         IN IF v.Kind = "String" THEN [lines |-> v.Str, broken |-> FALSE]
            ELSE IF v.Kind = "Indexed" THEN [lines |-> Join(v.List, 1), broken |-> FALSE]
            ELSE hc.Stdin

\* The reader of the input: the handler's standard input for "-", else
\* the text of the variable source names, "" when it is no string and no
\* indexed variable.
reader(source, hc) ==
    IF source = "-" THEN hc.Stdin
    ELSE LET v == Get(hc.Env, source)
         IN [lines |-> IF v.Kind = "String" THEN v.Str
                       ELSE IF v.Kind = "Indexed" THEN Join(v.List, 1)
                       ELSE <<>>,
             broken |-> FALSE]

\* positional without the default query: the forced variable is appended
\* to the arguments as given.
positionalNoDefault(forceVar, rest) ==
    IF forceVar # <<>> THEN rest \o forceVar ELSE rest

\* positional with the forced variable put in place of a source the
\* caller gave.
positionalOverrides(forceVar, rest) ==
    LET a == IF Len(rest) = 0 THEN <<".">> ELSE rest
    IN IF forceVar = <<>> THEN a
       ELSE IF Len(a) >= 2 THEN <<a[1]>> \o forceVar
       ELSE a \o forceVar

\* The positional arguments of query: "." when there are none, then the
\* forced variable (<<>>: none, <<name>>: *forceVar) appended.
positional(forceVar, rest) ==
    LET a == IF Len(rest) = 0 THEN <<".">> ELSE rest
    IN IF forceVar # <<>> THEN a \o forceVar ELSE a

\* tooManyArgs off by one.
tooManyArgsOffByOne(a) == Len(a) > 3

\* The default case of the switch on len(args): more than two.
tooManyArgs(a) == Len(a) > 2

\* Prog.filterJSON(ctx, forceVar, args)
filterJSON(forceVar, args, hc) ==
    LET f == Parse(queryFlags, Tail(args), 1, {})
        a == positional(forceVar, f.rest)
    IN IF f.err = "help"
       THEN [ret |-> NewExitStatus(2), w |-> Logged(NoWork, "usage")]
       ELSE IF f.err # "nil"
       THEN [ret |-> NewExitStatus(1), w |-> Logged(NoWork, "flag provided but not defined")]
       ELSE IF tooManyArgs(a)
       THEN [ret |-> NewExitStatus(1),
             w |-> Logged(NoWork, "too many argument to query: expected 0..2")]
       ELSE LET queryStr == IF Len(a) >= 1 THEN a[1] ELSE "."
                source == IF Len(a) = 2 THEN a[2] ELSE "-"
                r == reader(source, hc)
            IN IF "rawInput" \in f.set
               THEN IF r.broken
                    THEN [ret |-> NewExitStatus(1),
                          w |-> Logged([NoWork EXCEPT !.reads = 1], "error reading input")]
                    ELSE run(jsonFilter(f.set), queryStr, V("str", r.lines), hc,
                             [NoWork EXCEPT !.reads = 1])
               ELSE decodeLoop(jsonFilter(f.set), queryStr, r, 1, TRUE, hc, NoWork)

\* Prog.filterEvent(ctx, args), p.event being ev
filterEvent(args, hc, ev) ==
    LET f == Parse(bind, Tail(args), 1, {})
    IN IF f.err = "help"
       THEN [ret |-> NewExitStatus(2), w |-> Logged(NoWork, "usage")]
       ELSE IF f.err # "nil"
       THEN [ret |-> NewExitStatus(1), w |-> Logged(NoWork, "flag provided but not defined")]
       ELSE IF Len(f.rest) > 1
       THEN [ret |-> NewExitStatus(1),
             w |-> Logged(NoWork, "too many arguments to event: expected 0..1")]
       ELSE run(jsonFilter(f.set), IF Len(f.rest) = 1 THEN f.rest[1] ELSE ".",
                ev, hc, NoWork)

\* ------------------------------------------------------------ Prog.exec
\* strings.TrimPrefix(name, "@") of the names that start with "@".
TrimPrefix == [n \in {"@", "@v", "@arr", "@m", "@nx"} |->
                  CASE n = "@" -> ""
                    [] n = "@v" -> "v"
                    [] n = "@arr" -> "arr"
                    [] n = "@m" -> "m"
                    [] n = "@nx" -> "nx"]

HasPrefix(name) == name \in DOMAIN TrimPrefix

\* isVar without the test of the variable's kind.
isVarOfAnyKind(cmd, Env) == ~(cmd = "@" \/ ~HasPrefix(cmd))

\* The default case of the switch: whether cmd is @VAR for a variable
\* that is a string or indexed.
isVar(cmd, Env) ==
    /\ ~(cmd = "@" \/ ~HasPrefix(cmd))
    /\ Get(Env, TrimPrefix[cmd]).Kind \in {"String", "Indexed"}

\* The case of the switch on args[0] that handles the command.
route(args, Env) ==
    CASE args[1] = "query" -> "query"
      [] args[1] = "event" -> "event"
      [] OTHER -> IF isVar(args[1], Env) THEN "var" ELSE "default"

\* The arguments filterJSON gets for @VAR: append([]string{"query"}, args[1:]...)
varArgs(args) == <<"query">> \o Tail(args)

\* interp.DefaultExecHandler: the command's exit status, or an error that
\* is no exit status.
External == {Nil, NewExitStatus(1), NewExitStatus(127), GoError}

\* ------------------------------------------------------------- inputs
\* The environment of a script that set v to a text and arr to a list;
\* m is an associative array and every other name is unset.
Environ(str, list) ==
    [n \in {"v", "arr", "m"} |->
        CASE n = "v" -> String(str)
          [] n = "arr" -> Indexed(list)
          [] n = "m" -> [Kind |-> "Associative", Str |-> <<>>, List |-> <<>>]]

\* interp.HandlerCtx(ctx): the environment and the streams of one command.
Ctx(str, list, stdin, broken, cap) ==
    [Env |-> Environ(str, list),
     Stdin |-> [lines |-> stdin, broken |-> broken],
     Stdout |-> cap]

Elems == {<<"1">>, <<"[1,2]">>}
Lists == SeqsUpTo(Elems, MaxList)

SomeText == <<"[1,2]">>
SomeList == <<<<"1">>, <<"[1,2]">>>>

\* Contexts whose streams never fail: one of standard input, v and arr
\* ranges over its values while the other two are fixed.
Contexts ==
    {Ctx(SomeText, SomeList, t, FALSE, Unlimited) : t \in Texts}
    \cup {Ctx(t, SomeList, <<>>, FALSE, Unlimited) : t \in Texts}
    \cup {Ctx(SomeText, l, <<>>, FALSE, Unlimited) : l \in Lists}

\* Contexts with a standard output that fails after a few writes, or a
\* standard input that cannot be read.
FaultyContexts ==
    {Ctx(SomeText, SomeList, t, FALSE, cap) :
        t \in {<<>>, <<"[1,2]">>, <<"[1,2]", "---">>}, cap \in 0..MaxWrites}
    \cup {Ctx(SomeText, SomeList, <<>>, TRUE, Unlimited)}

Names == {"query", "event", "@v", "@arr", "@m", "@nx", "@", "ls"}

\* Argument vectors of every shape over a few tokens ...
Tokens == {"-R", "-j", "-h", "-", ".", ".[]", "][", "v"}
AnyArgs == SeqsUpTo(Tokens, MaxArgs)

\* ... and well-formed ones over every flag, query and source.
Flags == {<<>>, <<"-R">>, <<"-j">>, <<"-Y">>, <<"-j", "-p">>, <<"-Y", "-json">>,
          <<"-x">>, <<"-R", "--">>}
Sources == {"-", "v", "arr", "m", "nx"}
QueryArgs(name) ==
    {fl \o <<q>> : fl \in Flags, q \in Queries \cup {"]["}}
    \cup {fl : fl \in Flags}
    \cup IF name = "query"
         THEN {fl \o <<q, src>> : fl \in Flags, q \in Queries \cup {"]["}, src \in Sources}
         ELSE {}

Command(name, args, c) == [args |-> <<name>> \o args, hc |-> c]

BuiltIns == {"query", "event", "@v", "@arr"}

\* The commands a script runs: any argument vector in two contexts, and
\* the well-formed invocations of the built-ins in every context; with
\* faulty, also in the contexts whose streams fail.
ArgsOf(name) == AnyArgs \cup IF name \in BuiltIns THEN QueryArgs(name) ELSE {}

ContextsOf(name, args, faulty) ==
    {Ctx(SomeText, SomeList, t, FALSE, Unlimited) : t \in {<<>>, <<"1", "---">>}}
    \cup (IF name \in BuiltIns /\ args \in QueryArgs(name) THEN Contexts ELSE {})
    \cup (IF faulty /\ name \in BuiltIns /\ args \in QueryArgs(name)
          THEN FaultyContexts ELSE {})

\* -------------------------------------------------------------- state
VARIABLES
    event,  \* Prog.event, read before the script runs
    exit,   \* the interpreter's exit status of the last command
    pc,     \* "idle": between commands; "returned": the handler has
            \* returned to the interpreter; "stopped": Runner.Run ended
    argv,   \* the arguments of the command given to Prog.exec
    hc,     \* its handler context
    path,   \* the case of Prog.exec that handled it
    ret,    \* the error Prog.exec returned
    work,   \* what the handler did
    spawned \* the arguments given to p.defaultExec, <<>> when it was not called

vars == <<event, exit, pc, argv, hc, path, ret, work, spawned>>

Events == {V("map", <<"1", "2">>)}

NoCtx == Ctx(<<>>, <<>>, <<>>, FALSE, Unlimited)

Init ==
    /\ event \in Events
    /\ exit = 0
    /\ pc = "idle"
    /\ argv = <<>>
    /\ hc = NoCtx
    /\ path = "none"
    /\ ret = Nil
    /\ work = NoWork
    /\ spawned = <<>>

\* The interpreter calls Prog.exec for a command and the case "query" of
\* the switch on args[0] handles it.
ExecQuery(faulty) ==
    /\ pc = "idle"
    /\ \E n \in Names : \E a \in ArgsOf(n) : \E c \in ContextsOf(n, a, faulty) :
          LET inv == Command(n, a, c)
              r == filterJSON(<<>>, inv.args, inv.hc)
          IN /\ route(inv.args, inv.hc.Env) = "query"
             /\ pc' = "returned"
             /\ argv' = inv.args
             /\ hc' = inv.hc
             /\ path' = "query"
             /\ ret' = r.ret
             /\ work' = r.w
             /\ spawned' = <<>>
             /\ UNCHANGED <<event, exit>>

\* case "event"
ExecEvent(faulty) ==
    /\ pc = "idle"
    /\ \E n \in Names : \E a \in ArgsOf(n) : \E c \in ContextsOf(n, a, faulty) :
          LET inv == Command(n, a, c)
              r == filterEvent(inv.args, inv.hc, event)
          IN /\ route(inv.args, inv.hc.Env) = "event"
             /\ pc' = "returned"
             /\ argv' = inv.args
             /\ hc' = inv.hc
             /\ path' = "event"
             /\ ret' = r.ret
             /\ work' = r.w
             /\ spawned' = <<>>
             /\ UNCHANGED <<event, exit>>

\* default, @VAR of a string or indexed variable
ExecVar(faulty) ==
    /\ pc = "idle"
    /\ \E n \in Names : \E a \in ArgsOf(n) : \E c \in ContextsOf(n, a, faulty) :
          LET inv == Command(n, a, c)
              r == filterJSON(<<TrimPrefix[inv.args[1]]>>, varArgs(inv.args), inv.hc)
          IN /\ route(inv.args, inv.hc.Env) = "var"
             /\ pc' = "returned"
             /\ argv' = inv.args
             /\ hc' = inv.hc
             /\ path' = "var"
             /\ ret' = r.ret
             /\ work' = r.w
             /\ spawned' = <<>>
             /\ UNCHANGED <<event, exit>>

\* Any other command: p.defaultExec(ctx, args), which returns what the
\* external command did.
ExecDefault(faulty) ==
    /\ pc = "idle"
    /\ \E n \in Names : \E a \in ArgsOf(n) : \E c \in ContextsOf(n, a, faulty) :
          LET inv == Command(n, a, c)
          IN /\ route(inv.args, inv.hc.Env) = "default"
             /\ pc' = "returned"
             /\ argv' = inv.args
             /\ hc' = inv.hc
             /\ path' = "default"
             /\ ret' \in External
             /\ work' = NoWork
             /\ spawned' = inv.args
             /\ UNCHANGED <<event, exit>>

\* The interpreter takes a nil error or an exit status as the command's
\* status and goes on with the script.
RunnerContinue ==
    /\ pc = "returned"
    /\ ret.kind \in {"nil", "exit"}
    /\ exit' = ret.code
    /\ pc' = "idle"
    /\ argv' = <<>>
    /\ hc' = NoCtx
    /\ path' = "none"
    /\ ret' = Nil
    /\ work' = NoWork
    /\ spawned' = <<>>
    /\ UNCHANGED event

\* Any other error ends Runner.Run, and Main returns 1.
RunnerStop ==
    /\ pc = "returned"
    /\ ret.kind = "error"
    /\ pc' = "stopped"
    /\ exit' = 1
    /\ UNCHANGED <<event, argv, hc, path, ret, work, spawned>>

Next ==
    \/ ExecQuery(FALSE)
    \/ ExecEvent(FALSE)
    \/ ExecVar(FALSE)
    \/ ExecDefault(FALSE)
    \/ RunnerContinue
    \/ RunnerStop

Spec == Init /\ [][Next]_vars

\* The same script with streams that may fail.
NextIO ==
    \/ ExecQuery(TRUE)
    \/ ExecEvent(TRUE)
    \/ ExecVar(TRUE)
    \/ ExecDefault(TRUE)
    \/ RunnerContinue
    \/ RunnerStop

SpecIO == Init /\ [][NextIO]_vars

\* ------------------------------------------------ the invocation in argv
Returned == pc \in {"returned", "stopped"}
Internal == path \in {"query", "event", "var"}

\* Its flags and the arguments left after them.
parsed == Parse(IF path = "event" THEN bind ELSE queryFlags, Tail(argv), 1, {})

\* Its positional arguments: the query string, then the input source.
pos ==
    IF path = "event"
    THEN IF parsed.rest = <<>> THEN <<".">> ELSE parsed.rest
    ELSE positional(IF path = "var" THEN <<TrimPrefix[argv[1]]>> ELSE <<>>, parsed.rest)

\* A built-in has returned whose flags parsed and whose positional
\* arguments are no more than it takes.
WellFormed ==
    /\ Returned
    /\ Internal
    /\ parsed.err = "nil"
    /\ Len(pos) <= IF path = "event" THEN 1 ELSE 2

QueryStr == pos[1]
Source == IF Len(pos) = 2 THEN pos[2] ELSE "-"
RawInput == path # "event" /\ "rawInput" \in parsed.set

\* The documents of a text, up to its end or to the first that does not
\* decode.
RECURSIVE AllDocs(_, _, _)
AllDocs(lines, p, first) ==
    LET d == Decode(lines, p, first)
    IN IF d.st = "ok" THEN <<d.v>> \o AllDocs(lines, d.pos, FALSE) ELSE <<>>

\* The input documents of the invocation, in input order.
InputDocs ==
    IF path = "event" THEN <<event>>
    ELSE IF RawInput THEN <<V("str", reader(Source, hc).lines)>>
    ELSE AllDocs(reader(Source, hc).lines, 1, TRUE)

\* The results of a query on each document, in document and result order.
RECURSIVE Flatten(_, _, _)
Flatten(q, docs, i) ==
    IF i > Len(docs) THEN <<>> ELSE Run(q, docs[i]) \o Flatten(q, docs, i + 1)

RECURSIVE BeforeError(_, _)
BeforeError(results, i) ==
    IF i > Len(results) \/ results[i].t = "error" THEN <<>>
    ELSE <<results[i]>> \o BeforeError(results, i + 1)

HasError(results) == \E i \in 1..Len(results) : results[i].t = "error"

\* The values written to standard output, without the separators.
RECURSIVE ValuesOf(_, _)
ValuesOf(out, i) ==
    IF i > Len(out) THEN <<>>
    ELSE (IF out[i].k = "nl" THEN <<>> ELSE <<out[i].v>>) \o ValuesOf(out, i + 1)

\* --------------------------------------------------------- properties
\* C1: the values a query, event or @name invocation writes are the
\* results of the query on the input documents, in document and result
\* order, up to the first error result; an error result ends the
\* invocation with status 1 and nothing after it is encoded.
C1_StopsAtFirstError ==
    (WellFormed /\ ParseOK(QueryStr)) =>
        LET results == Flatten(QueryStr, InputDocs, 1)
        IN /\ ValuesOf(work.out, 1) = BeforeError(results, 1)
           /\ HasError(results) => ret = NewExitStatus(1)

\* C1's case: two input documents, an error after the first result of the
\* first; that result alone is written and the status is 1.
C1_Witness ==
    /\ WellFormed
    /\ QueryStr = ".,error,."
    /\ Len(InputDocs) = 2
    /\ ValuesOf(work.out, 1) = <<InputDocs[1]>>
    /\ ret = NewExitStatus(1)

\* C2: in plain mode the output of a query invocation that succeeded is
\* its values with one newline between each two, none before the first
\* and none after the last, whatever the number of input documents.
C2_OneSeparatorStream ==
    (WellFormed /\ path = "query" /\ ret = Nil
        /\ ~("json" \in parsed.set \/ "yaml" \in parsed.set)) =>
        /\ work.out # <<>> => Len(work.out) % 2 = 1
        /\ \A i \in 1..Len(work.out) :
              work.out[i].k = (IF i % 2 = 1 THEN "plain" ELSE "nl")

\* C3: a built-in whose query string does not parse exits with status 1,
\* writes nothing and never runs the query, whatever its input.
C3_ParseFirst ==
    (WellFormed /\ ~ParseOK(QueryStr)) =>
        /\ ret = NewExitStatus(1)
        /\ work.out = <<>>
        /\ work.runs = <<>>

\* The query invocation that `@v A` is said to be: query A v.
AsQuery(A) == filterJSON(<<>>, <<"query">> \o A \o <<TrimPrefix[argv[1]]>>, hc)

\* C4 as stated: `@v A` has the output and the status of `query A v`, for
\* every argument vector A.
C4_ShorthandIsQueryAV ==
    (Returned /\ path = "var") =>
        /\ ret = AsQuery(Tail(argv)).ret
        /\ work.out = AsQuery(Tail(argv)).w.out

\* C4, amended: `@v A` has the output, the log and the status of
\* `query A v` when A holds a positional argument (or flags that do not
\* parse), and of `query A . v` when A is empty or holds only flags.
C4_ShorthandDefaultsQuery ==
    (Returned /\ path = "var") =>
        LET A == Tail(argv)
            q == AsQuery(IF parsed.err = "nil" /\ parsed.rest = <<>>
                         THEN A \o <<".">> ELSE A)
        IN /\ ret = q.ret
           /\ work.out = q.w.out
           /\ work.log = q.w.log

\* C4's case: `@v` with flags only has written the value of v.
C4_Witness ==
    /\ Returned
    /\ path = "var"
    /\ Tail(argv) # <<>>
    /\ parsed.err = "nil"
    /\ parsed.rest = <<>>
    /\ work.out # <<>>

\* C5 as stated: `@v Q S` runs Q on the value of v and ignores S, as
\* `query Q v` does.
C5_ForcedVariableOverrides ==
    (Returned /\ path = "var" /\ parsed.err = "nil" /\ Len(parsed.rest) = 2) =>
        LET A == Tail(argv)
            q == AsQuery(SubSeq(A, 1, Len(A) - 1))
        IN /\ ret = q.ret
           /\ work.out = q.w.out
           /\ work.runs = q.w.runs

\* C5, amended: `@v Q S` has three positional arguments, S and then v, and
\* is a usage error: status 1, the message of too many arguments, nothing
\* parsed, read, run or written.
C5_SourceIsTooMany ==
    (Returned /\ path = "var" /\ parsed.err = "nil" /\ Len(parsed.rest) = 2) =>
        /\ ret = NewExitStatus(1)
        /\ work = Logged(NoWork, "too many argument to query: expected 0..2")

\* C5's case: `@v Q S` with a query that parses has returned.
C5_Witness ==
    /\ Returned
    /\ path = "var"
    /\ parsed.err = "nil"
    /\ Len(parsed.rest) = 2
    /\ ParseOK(parsed.rest[1])
    /\ ret = NewExitStatus(1)

\* C6: a command takes one path. It is executed externally, with its
\* arguments unchanged and nothing done by the built-ins, exactly when it
\* is not query, not event and not @name, longer than "@", for a string
\* or indexed variable name; it is handled by query, by event or as
\* shorthand exactly when it is the one, the other or such an @name.
C6_OnePath ==
    Returned =>
        LET name == argv[1]
            shorthand ==
                /\ name \in {"@v", "@arr", "@m", "@nx"}
                /\ Get(hc.Env, TrimPrefix[name]).Kind \in {"String", "Indexed"}
        IN /\ path = "query" <=> name = "query"
           /\ path = "event" <=> name = "event"
           /\ path = "var" <=> shorthand
           /\ path = "default" <=> (name # "query" /\ name # "event" /\ ~shorthand)
           /\ path = "default" => spawned = argv /\ work = NoWork
           /\ path # "default" => spawned = <<>>

\* C6's case: @nx, nx unset, was executed externally with its arguments.
C6_Witness ==
    /\ Returned
    /\ argv[1] = "@nx"
    /\ Len(argv) > 1
    /\ path = "default"
    /\ spawned = argv

\* C7: query with more than two positional arguments, and event with
\* more than one, exits with status 1 after its usage message and reads,
\* decodes, parses, runs and writes nothing.
C7_TooManyArguments ==
    (Returned /\ path \in {"query", "event"} /\ parsed.err = "nil"
        /\ Len(parsed.rest) > (IF path = "query" THEN 2 ELSE 1)) =>
        /\ ret = NewExitStatus(1)
        /\ work = Logged(NoWork,
                         IF path = "query"
                         THEN "too many argument to query: expected 0..2"
                         ELSE "too many arguments to event: expected 0..1")

\* C7's case: query with three positional arguments has returned.
C7_Witness ==
    /\ Returned
    /\ path = "query"
    /\ parsed.err = "nil"
    /\ Len(parsed.rest) = 3
    /\ ret = NewExitStatus(1)

\* The decoded value of each element of an indexed variable.
ElementValues(list) == [i \in 1..Len(list) |-> Decode(list[i], 1, TRUE).v]

\* C8: with an indexed variable as the input source, the query is run
\* once per element, on the decoded value of that element, and the
\* outputs are in element order.
C8_ElementsQueriedSeparately ==
    (WellFormed /\ path \in {"query", "var"} /\ ~RawInput /\ Source # "-"
        /\ Get(hc.Env, Source).Kind = "Indexed" /\ ParseOK(QueryStr)) =>
        LET vals == ElementValues(Get(hc.Env, Source).List)
            results == Flatten(QueryStr, vals, 1)
        IN ~HasError(results) =>
              /\ work.runs = vals
              /\ ValuesOf(work.out, 1) = results

InLog(msg) == \E i \in 1..Len(work.log) : work.log[i] = msg

\* C9: whatever fails in a built-in (usage, query parsing, reading or
\* decoding the input, the query itself, encoding), the handler returns
\* nil or the exit status 1, or 2 for a help request, never another error:
\* the interpreter is not stopped and goes on to the next command.
C9_FailuresAreStatuses ==
    (Returned /\ Internal) =>
        /\ ret \in {Nil, NewExitStatus(1), NewExitStatus(2)}
        /\ work.log # <<>> =>
              ret = IF InLog("usage") THEN NewExitStatus(2) ELSE NewExitStatus(1)
        /\ pc = "returned"
        /\ ENABLED RunnerContinue

\* C9's case: a write to standard output failed and the status is 1.
C9_Witness ==
    /\ pc = "returned"
    /\ Internal
    /\ InLog("encoding error")
    /\ ret = NewExitStatus(1)

\* C10: a source that names no string and no indexed variable is the
\* empty text, and no error. Without raw input it holds no document: the
\* query is not run, nothing is written or logged and the status is 0.
\* With raw input nothing is decoded and a query that parses is run once,
\* on the empty string.
C10_MissingVariableIsEmpty ==
    (WellFormed /\ path = "query" /\ Len(parsed.rest) = 2 /\ Source # "-"
        /\ Get(hc.Env, Source).Kind \notin {"String", "Indexed"}) =>
        IF RawInput
        THEN /\ work.decodes = 0
             /\ ~InLog("error reading input")
             /\ ParseOK(QueryStr) => work.runs = <<V("str", <<>>)>>
             /\ ~ParseOK(QueryStr) => work.runs = <<>>
        ELSE /\ work.runs = <<>>
             /\ work.out = <<>>
             /\ work.log = <<>>
             /\ ret = Nil

\* C10's case: query -R on an unset variable has run once, on "".
C10_Witness ==
    /\ WellFormed
    /\ path = "query"
    /\ RawInput
    /\ Source = "nx"
    /\ work.runs = <<V("str", <<>>)>>

====
